---- MODULE Spec2Model ----
(***************************************************************************)
(* Model of src/app.py (Year 6 Mental Math Hero, a Streamlit script).      *)
(*                                                                         *)
(* The script is executed top to bottom once per "run".  A run is started  *)
(* by one user event (a button click or a widget change) or by st.rerun(). *)
(* st.session_state survives between runs; everything else is recomputed.  *)
(* One action of the model is one run of the whole script.                 *)
(*                                                                         *)
(* Strings that the script processes (answers, options, drafts) are        *)
(* sequences of one-character strings, so that str.strip(), the option     *)
(* labels and str.split are computed and not assumed.                      *)
(* Time is counted in ticks of 1/TicksPerSecond second, so that int()      *)
(* really truncates.                                                       *)
(***************************************************************************)
EXTENDS Integers, Sequences, FiniteSets, TLC

\* ---------------------------------------------------------------- bounds
\* largest reading of time.time(), in ticks
MaxTime == 3
\* the user answers questions 1..MaxEditIdx and leaves the others empty
MaxEditIdx == 1

\* ------------------------------------------------------ program constants
\* len(qna) == 20
QLen == 20
\* resolution of the float returned by time.time()
TicksPerSecond == 2
\* divmod(elapsed, 60)
SecPerMin == 60
\* tier thresholds
HeroMin == 16
GoodMin == 10

\* Python None for start_time / end_time (time.time() itself is never 0)
None == 0
\* Python None for qna (a falsy value, as is the empty list)
NoQna == <<>>

Times == 1..MaxTime

\* ---------------------------------------------------------------- strings
S15    == <<"1", "5">>
S15sp  == <<" ", "1", "5", " ">>
S15d0  == <<"1", "5", ".", "0">>
S7     == <<"7">>
S8     == <<"8">>
S9     == <<"9">>
S10    == <<"1", "0">>
Empty  == <<>>

IsSpace(c) == c \in {" ", "\n"}

RECURSIVE LStrip(_)
LStrip(s) == IF s # <<>> /\ IsSpace(Head(s)) THEN LStrip(Tail(s)) ELSE s

RECURSIVE RStrip(_)
RStrip(s) ==
    IF s # <<>> /\ IsSpace(s[Len(s)]) THEN RStrip(SubSeq(s, 1, Len(s) - 1)) ELSE s

\* str.strip()
strip(s) == RStrip(LStrip(s))

\* chr(65 + j) for j = 0..4
Letters == <<"A", "B", "C", "D", "E">>

\* f"{chr(65+j)}. {opt}" ; j is the 1-based position
Label(j, opt) == <<Letters[j], ".", " ">> \o opt

\* ans.split(". ", 1)[1] : the text after the first ". "
RECURSIVE SplitAfterDotSpace(_)
SplitAfterDotSpace(s) ==
    IF Len(s) < 2 THEN <<>>
    ELSE IF s[1] = "." /\ s[2] = " " THEN SubSeq(s, 3, Len(s))
    ELSE SplitAfterDotSpace(Tail(s))

\* ------------------------------------------------- what the model returns
\* one JSON object of the array
Fib(q, a) == [question |-> q, answer |-> a, has_options |-> FALSE, options |-> <<>>]
Mcq(q, a, o) == [question |-> q, answer |-> a, has_options |-> TRUE, options |-> o]

\* a fill-in-blank array of n objects
FibList(n) == [i \in 1..n |-> Fib(<<"F", i>>, IF i % 2 = 1 THEN S15 ELSE S7)]

\* a multiple-choice array whose every answer is one of its options
McaList == [i \in 1..QLen |->
              Mcq(<<"A", i>>, IF i % 2 = 1 THEN S15 ELSE S7,
                  <<S15, S7>>)]

\* a multiple-choice array: record 1 has an option with surrounding blanks,
\* record 2 has an answer that is none of its options, record 3 has the
\* empty string as its answer
McbList == [i \in 1..QLen |->
              IF i = 1 THEN Mcq(<<"B", i>>, S15, <<S15sp, S15>>)
              ELSE IF i = 2 THEN Mcq(<<"B", i>>, S10, <<S8, S9>>)
              ELSE IF i = 3 THEN Mcq(<<"B", i>>, Empty, <<S8, S9>>)
              ELSE Mcq(<<"B", i>>, S9, <<S8, S9>>)]

\* json.loads results: a list, or something that is not a list
JList(items) == [is_list |-> TRUE, items |-> items]
JNotList == [is_list |-> FALSE, items |-> <<>>]

ParsedValues ==
    {JNotList, JList(FibList(0)), JList(FibList(QLen - 1)), JList(FibList(QLen + 1)),
     JList(FibList(QLen)), JList(McaList), JList(McbList)}

\* outcome of the language-model call and of locating / parsing the candidate
\*   raise    : model.generate_content raises
\*   no_array : no fence and no bracket pair  (ValueError)
\*   bad_json : json.loads raises
\*   parsed   : json.loads returns value; save_ok tells whether the file write works
LmOutcomes ==
    {[kind |-> k, value |-> JNotList, save_ok |-> TRUE] : k \in {"raise", "no_array", "bad_json"}}
    \cup {[kind |-> "parsed", value |-> v, save_ok |-> TRUE] : v \in ParsedValues}
    \cup {[kind |-> "parsed", value |-> v, save_ok |-> FALSE] :
             v \in {w \in ParsedValues : Len(w.items) >= QLen}}

NoLm == [kind |-> "raise", value |-> JNotList, save_ok |-> TRUE]

\* ---------------------------------------------------------- response.text
\* A text is a sequence of atoms: each of the characters [ ] { } , : " `
\* blank and newline is an atom of its own, and every other maximal run of
\* characters (a word, a number, the fence label) is one atom.
Quote == "\""
\* the atom of the character ` (written out, the character cannot stand in a
\* string of this module)
Backtick == "BACKTICK"
JsonLabels == {"json", "JSON"}

At(text, i, c) == i >= 1 /\ i <= Len(text) /\ text[i] = c

\* the first index at or after i that holds no white space
RECURSIVE SkipWs(_, _)
SkipWs(text, i) ==
    IF i >= 1 /\ i <= Len(text) /\ IsSpace(text[i]) THEN SkipWs(text, i + 1) ELSE i

\* the last index at or before i that holds no white space
RECURSIVE BackWs(_, _)
BackWs(text, i) ==
    IF i >= 1 /\ i <= Len(text) /\ IsSpace(text[i]) THEN BackWs(text, i - 1) ELSE i

MinOf(S) == CHOOSE x \in S : \A y \in S : x <= y
MaxOf(S) == CHOOSE x \in S : \A y \in S : x >= y

\* ``` at i
FenceAt(text, i) ==
    At(text, i, Backtick) /\ At(text, i + 1, Backtick) /\ At(text, i + 2, Backtick)

\* the index of the "[" and of the "{" that "```json\s*(\[\s*{" matches from i
GroupStart(text, i) == SkipWs(text, i + 4)
BraceOf(text, i) == SkipWs(text, GroupStart(text, i) + 1)

\* "```json\s*(\[\s*{" matches at i (re.IGNORECASE)
OpenerAt(text, i) ==
    /\ FenceAt(text, i)
    /\ i + 3 <= Len(text) /\ text[i + 3] \in JsonLabels
    /\ At(text, GroupStart(text, i), "[")
    /\ At(text, BraceOf(text, i), "{")

\* the index of the "]" that "}\s*]\s*```" matches from e
GroupEnd(text, e) == SkipWs(text, e + 1)

\* "}\s*]\s*```" matches at e
CloserAt(text, e) ==
    /\ At(text, e, "}")
    /\ At(text, GroupEnd(text, e), "]")
    /\ FenceAt(text, SkipWs(text, GroupEnd(text, e) + 1))

\* re.search(r"```json\s*(\[\s*{.*?}\s*])\s*```", content, re.DOTALL | re.IGNORECASE):
\* the leftmost opener after which a closer follows, up to the nearest closer
FenceSearch(content) ==
    LET closers == {e \in 1..Len(content) : CloserAt(content, e)}
        starts  == {i \in 1..Len(content) :
                      /\ OpenerAt(content, i)
                      /\ \E e \in closers : e > BraceOf(content, i)}
    IN IF starts = {} THEN [found |-> FALSE, group |-> <<>>]
       ELSE LET i == MinOf(starts)
                e == MinOf({x \in closers : x > BraceOf(content, i)})
            IN [found |-> TRUE,
                group |-> SubSeq(content, GroupStart(content, i), GroupEnd(content, e))]

\* start = content.find("["); end = content.rfind("]") + 1; content[start:end]
BracketSlice(content) ==
    LET opens  == {i \in 1..Len(content) : content[i] = "["}
        closes == {i \in 1..Len(content) : content[i] = "]"}
    IN IF opens = {} \/ closes = {} THEN [found |-> FALSE, str |-> <<>>]
       ELSE [found |-> TRUE, str |-> SubSeq(content, MinOf(opens), MaxOf(closes))]

\* if match: json_str = match.group(1) else: ... json_str = content[start:end]
LocateCandidate(content) ==
    IF FenceSearch(content).found
    THEN [found |-> TRUE, via |-> "fence", json_str |-> FenceSearch(content).group]
    ELSE [found |-> BracketSlice(content).found, via |-> "brackets",
          json_str |-> BracketSlice(content).str]

\* the indices that re.sub(r",\s*([}\]])", r"\1", json_str) deletes: every
\* comma that is followed, after white space, by } or ], and that white space
DeletedByRepair(text) ==
    UNION {i..(SkipWs(text, i + 1) - 1) :
             i \in {c \in 1..Len(text) :
                      /\ text[c] = ","
                      /\ SkipWs(text, c + 1) <= Len(text)
                      /\ text[SkipWs(text, c + 1)] \in {"}", "]"}}}

\* text without the atoms at the indices R
Delete(text, R) ==
    IF R = {} THEN text
    ELSE [n \in 1..(Len(text) - Cardinality(R)) |->
            text[CHOOSE j \in n..(n + Cardinality(R)) :
                   j \notin R /\ j - Cardinality({r \in R : r < j}) = n]]

RepairTrailingCommas(json_str) == Delete(json_str, DeletedByRepair(json_str))

\* ------------------------------------------------------------- json.loads
\* json.loads for the values the prompt asks for: a list of objects whose
\* values are strings or lists of strings.  Any other text is a parse error
\* here.
NoValue == [ok |-> FALSE, next |-> 0, str |-> TRUE, s |-> <<>>, arr |-> <<>>]
JString(s, next) == [ok |-> TRUE, next |-> next, str |-> TRUE, s |-> s, arr |-> <<>>]
JStrings(arr, next) == [ok |-> TRUE, next |-> next, str |-> FALSE, s |-> <<>>, arr |-> arr]
NoObject == [ok |-> FALSE, next |-> 0, members |-> <<>>]

\* index i is outside every string literal
Outside(Q, i) == Cardinality({q \in Q : q < i}) % 2 = 0

\* a string literal that opens at i and closes at the next quote
ParseString(text, i) ==
    IF ~At(text, i, Quote) \/ ~(\E q \in (i + 1)..Len(text) : text[q] = Quote)
    THEN NoValue
    ELSE LET q == CHOOSE q \in (i + 1)..Len(text) :
                    text[q] = Quote /\ \A j \in (i + 1)..(q - 1) : text[j] # Quote
         IN JString(SubSeq(text, i + 1, q - 1), q + 1)

\* the elements of a list of strings, the next of which starts at or after i
RECURSIVE ParseStrings(_, _, _)
ParseStrings(text, i, acc) ==
    LET r == ParseString(text, SkipWs(text, i))
    IN IF ~r.ok THEN NoValue
       ELSE IF At(text, SkipWs(text, r.next), ",")
       THEN ParseStrings(text, SkipWs(text, r.next) + 1, Append(acc, r.s))
       ELSE IF At(text, SkipWs(text, r.next), "]")
       THEN JStrings(Append(acc, r.s), SkipWs(text, r.next) + 1)
       ELSE NoValue

\* the value of a member: a string, or a list of strings that opens at i
ParseMemberValue(text, i) ==
    IF At(text, i, Quote) THEN ParseString(text, i)
    ELSE IF At(text, i, "[")
    THEN IF At(text, SkipWs(text, i + 1), "]")
         THEN JStrings(<<>>, SkipWs(text, i + 1) + 1)
         ELSE ParseStrings(text, i + 1, <<>>)
    ELSE NoValue

\* the members of an object, the next of which starts at or after i
RECURSIVE ParseMembers(_, _, _)
ParseMembers(text, i, acc) ==
    LET key   == ParseString(text, SkipWs(text, i))
        colon == SkipWs(text, key.next)
        val   == ParseMemberValue(text, SkipWs(text, colon + 1))
        after == SkipWs(text, val.next)
        all   == Append(acc, [k |-> key.s, str |-> val.str, s |-> val.s, arr |-> val.arr])
    IN IF ~key.ok THEN NoObject
       ELSE IF ~At(text, colon, ":") THEN NoObject
       ELSE IF ~val.ok THEN NoObject
       ELSE IF At(text, after, ",") THEN ParseMembers(text, after + 1, all)
       ELSE IF At(text, after, "}") THEN [ok |-> TRUE, next |-> after + 1, members |-> all]
       ELSE NoObject

\* an object that opens at i
ParseObject(text, i) ==
    IF At(text, SkipWs(text, i + 1), "}")
    THEN [ok |-> TRUE, next |-> SkipWs(text, i + 1) + 1, members |-> <<>>]
    ELSE ParseMembers(text, i + 1, <<>>)

\* "key" in qa ; qa["key"] (of a repeated key the last one counts; an object
\* without the key, a KeyError of the quiz form, is none of the modelled texts)
HasKey(members, key) == \E j \in 1..Len(members) : members[j].k = <<key>>
GetKey(members, key) ==
    IF HasKey(members, key)
    THEN members[MaxOf({j \in 1..Len(members) : members[j].k = <<key>>})]
    ELSE [k |-> <<key>>, str |-> TRUE, s |-> <<>>, arr |-> <<>>]

\* the dict of one parsed object, as the quiz form reads it
ToQa(members) ==
    IF HasKey(members, "options")
    THEN Mcq(GetKey(members, "question").s, GetKey(members, "answer").s,
             GetKey(members, "options").arr)
    ELSE Fib(GetKey(members, "question").s, GetKey(members, "answer").s)

LoadsError == [ok |-> FALSE, items |-> <<>>]

\* json.loads(text): the objects are parsed where a { stands outside the
\* strings; they must follow one another separated by single commas and fill
\* the brackets
Loads(text) ==
    LET Q     == {i \in 1..Len(text) : text[i] = Quote}
        a     == SkipWs(text, 1)
        b     == BackWs(text, Len(text))
        opens == {i \in (a + 1)..(b - 1) : text[i] = "{" /\ Outside(Q, i)}
        n     == Cardinality(opens)
        o     == [k \in 1..n |->
                    CHOOSE i \in opens : Cardinality({j \in opens : j < i}) = k - 1]
        r     == [k \in 1..n |-> ParseObject(text, o[k])]
    IN IF ~(At(text, a, "[") /\ At(text, b, "]") /\ a < b) THEN LoadsError
       ELSE IF n = 0
       THEN IF SkipWs(text, a + 1) = b THEN [ok |-> TRUE, items |-> <<>>] ELSE LoadsError
       ELSE IF /\ SkipWs(text, a + 1) = o[1]
               /\ \A k \in 1..n : r[k].ok
               /\ \A k \in 1..(n - 1) :
                    /\ At(text, SkipWs(text, r[k].next), ",")
                    /\ SkipWs(text, SkipWs(text, r[k].next) + 1) = o[k + 1]
               /\ SkipWs(text, r[n].next) = b
       THEN [ok |-> TRUE, items |-> [k \in 1..n |-> ToQa(r[k].members)]]
       ELSE LoadsError

\* lines 167-180: what the Generate handler makes of response.text
Extraction(text) ==
    LET c == LocateCandidate(strip(text))
        v == Loads(RepairTrailingCommas(c.json_str))
    IN IF ~c.found THEN [kind |-> "no_array", value |-> JNotList, save_ok |-> TRUE]
       ELSE IF ~v.ok THEN [kind |-> "bad_json", value |-> JNotList, save_ok |-> TRUE]
       ELSE [kind |-> "parsed", value |-> JList(v.items), save_ok |-> TRUE]

\* ---------------------------------------------- the texts the model writes
Numerals == <<"1", "2", "3", "4", "5", "6", "7", "8", "9", "10",
              "11", "12", "13", "14", "15", "16", "17", "18", "19", "20">>

\* a JSON string literal
Str(s) == <<Quote>> \o s \o <<Quote>>

RECURSIVE Join(_, _)
Join(texts, sep) ==
    IF texts = <<>> THEN <<>>
    ELSE IF Len(texts) = 1 THEN texts[1]
    ELSE texts[1] \o sep \o Join(Tail(texts), sep)

\* ["10", "12"]
StringsText(strs) ==
    <<"[">> \o Join([j \in 1..Len(strs) |-> Str(strs[j])], <<",", " ">>) \o <<"]">>

\* {"question": "...", "answer": "..."} with "options": [...] for multiple choice
RecordText(qa) ==
    <<"{">> \o Str(<<"question">>) \o <<":", " ">> \o Str(qa.question)
            \o <<",", " ">> \o Str(<<"answer">>) \o <<":", " ">> \o Str(qa.answer)
            \o (IF qa.has_options
                THEN <<",", " ">> \o Str(<<"options">>) \o <<":", " ">>
                                 \o StringsText(qa.options)
                ELSE <<>>)
            \o <<"}">>

\* the JSON list of the records, one record per line
ArrayText(items) ==
    <<"[", "\n">>
      \o Join([i \in 1..Len(items) |-> RecordText(items[i])], <<",", "\n">>)
      \o <<"\n", "]">>

\* a fill-in-blank batch
TextFib == [i \in 1..QLen |-> Fib(<<"Q", Numerals[i]>>, IF i % 2 = 1 THEN S15 ELSE S7)]
\* the same with the question "[2,]?" in record 1
TextFibComma == [TextFib EXCEPT ![1] = Fib(<<"[", "2", ",", "]", "?">>, S15)]
\* the same with the question "}]```" in record 1
TextFibFence ==
    [TextFib EXCEPT ![1] = Fib(<<"}", "]", Backtick, Backtick, Backtick>>, S15)]
\* a multiple-choice batch
TextMc == [i \in 1..QLen |->
             Mcq(<<"Q", Numerals[i]>>, IF i % 2 = 1 THEN S15 ELSE S7, <<S15, S7>>)]

Fence == <<Backtick, Backtick, Backtick>>

\* a fenced json block that holds a list of one record
ExampleBlock ==
    Fence \o <<"json", " ", "[">> \o RecordText(TextFib[1]) \o <<"]", " ">> \o Fence

\* what the model writes before and after the fenced block
Pres  == {<<>>,
          <<"Here", " ", "[", "1", "]", ":", "\n">>,
          <<"e.g.", " ">> \o ExampleBlock \o <<"\n">>}
Posts == {<<>>,
          <<"\n", "Done", " ", "[", "x", "]">>,
          <<"\n", "e.g.", " ">> \o ExampleBlock}

\* a comma, or a comma and white space
CommaInserts == {<<",">>, <<",", " ">>}

\* the indices of the ] and } of the structure of text
ClosePositions(text) ==
    {p \in 1..Len(text) :
       /\ text[p] \in {"]", "}"}
       /\ Outside({i \in 1..Len(text) : text[i] = Quote}, p)}

InsertAt(text, p, ins) == SubSeq(text, 1, p - 1) \o ins \o SubSeq(text, p, Len(text))

\* a response: its text, and the list text, the prose and the way it was made of
Response(text, pre, array, post, how) ==
    [text |-> text, pre |-> pre, array |-> array, post |-> post, how |-> how]

NoResponse == Response(<<>>, <<>>, <<>>, <<>>, "none")

\* the list alone
BareResponses ==
    {Response(ArrayText(b), <<>>, ArrayText(b), <<>>, "bare") :
       b \in {TextFib, TextFibComma, TextFibFence, TextMc}}

\* the list with one comma put before one of its closing ] or }
CommaResponses ==
    UNION {{Response(InsertAt(a, p, ins), <<>>, a, <<>>, "comma") :
              p \in ClosePositions(a), ins \in CommaInserts} :
             a \in {ArrayText(TextFib), ArrayText(TextMc)}}

\* the fill-in-blank list in a fenced json block between prose
FencedResponses ==
    {Response(pre \o Fence \o <<label, "\n">> \o ArrayText(b) \o <<"\n">> \o Fence \o post,
              pre, ArrayText(b), post, "fenced") :
       pre \in Pres, post \in Posts, label \in JsonLabels,
       b \in {TextFib, TextFibComma, TextFibFence}}

\* prose without any bracket; a multiple-choice list that breaks off
OtherResponses ==
    {Response(<<"Sorry", " ", "no", " ", "list", "\n">>, <<>>, <<>>, <<>>, "prose"),
     Response(SubSeq(ArrayText(TextMc), 1, Len(ArrayText(TextMc)) - 4),
              <<>>, <<>>, <<>>, "cut")}

Responses == BareResponses \cup CommaResponses \cup FencedResponses \cup OtherResponses

\* ------------------------------------------------------------------ state
VARIABLES
    session_state,  \* st.session_state
    screen,         \* what the last run left on the page
    rerun,          \* "none" | "now" (st.rerun() raised) | "timer" (sleep(1); st.rerun())
    shown,          \* the numbers the last run displayed
    saved_file,     \* the content of the newest file under MentalMath/, <<>> if none
    response        \* the text the model returns (with the parts it was made of)

vars == <<session_state, screen, rerun, shown, saved_file, response>>

FiveKeys == {"qna", "start_time", "submitted", "user_answers", "end_time"}

Formats == {"Fill in Blank", "Multiple Choice"}

NoDrafts == [i \in 1..QLen |-> Empty]
NoChoice == [i \in 1..QLen |-> 0]

\* the session state with no key at all (a new session, or after "Try Another Set")
EmptySession ==
    [keys |-> {},
     qna |-> NoQna, start_time |-> None, submitted |-> FALSE,
     user_answers |-> <<>>, end_time |-> None,
     shuffled_options |-> <<>>,
     question_format |-> "Fill in Blank",
     q |-> NoDrafts, q_mcq |-> NoChoice]

NoShown == [timer |-> FALSE, final |-> FALSE, elapsed |-> 0, m |-> 0, s |-> 0,
            correct |-> 0, total |-> 0, tier |-> "none"]

\* ------------------------------------------------------- Session State Init
\* for key, default in {...}.items(): if key not in st.session_state: ...
SessionStateInit(s) ==
    [s EXCEPT !.keys = @ \cup FiveKeys,
              !.qna = IF "qna" \in s.keys THEN @ ELSE NoQna,
              !.start_time = IF "start_time" \in s.keys THEN @ ELSE None,
              !.submitted = IF "submitted" \in s.keys THEN @ ELSE FALSE,
              !.user_answers = IF "user_answers" \in s.keys THEN @ ELSE <<>>,
              !.end_time = IF "end_time" \in s.keys THEN @ ELSE None]

\* ------------------------------------------------------- Generate Questions
\* the check without the length test
Accepted_AnyLength(qna) == qna.is_list

\* isinstance(qna, list) and len(qna) == 20
Accepted(qna) == qna.is_list /\ Len(qna.items) = QLen

\* the assignments without  st.session_state.user_answers = []
StartQuiz_KeepAnswers(s, items, t) ==
    [s EXCEPT !.qna = items, !.start_time = t, !.submitted = FALSE]

\* st.session_state.qna = qna ... st.session_state.user_answers = []
StartQuiz(s, items, t) ==
    [s EXCEPT !.qna = items, !.start_time = t, !.submitted = FALSE,
              !.user_answers = <<>>]

\* the assignments made before the file is written
SaveAndStart_CommitFirst(s, items, ok, t) ==
    IF ok THEN [ss |-> StartQuiz(s, items, t), ctl |-> "rerun", wrote |-> items]
    ELSE [ss |-> StartQuiz(s, items, t), ctl |-> "next", wrote |-> NoQna]

\* the session is started although save_to_json raised
SaveAndStart_IgnoreSaveError(s, items, ok, t) ==
    [ss |-> StartQuiz(s, items, t), ctl |-> "rerun",
     wrote |-> IF ok THEN items ELSE NoQna]

\* filename = save_to_json(...); the four assignments; st.rerun()
\* (an exception of save_to_json is caught by "except Exception");
\* wrote is the list that json.dump wrote completely, <<>> if none
SaveAndStart(s, items, ok, t) ==
    IF ok THEN [ss |-> StartQuiz(s, items, t), ctl |-> "rerun", wrote |-> items]
    ELSE [ss |-> s, ctl |-> "next", wrote |-> NoQna]

\* the body of  if st.button("Generate My Questions"):
GenerateQuestions(s, lm, t) ==
    IF lm.kind = "raise"
    THEN [ss |-> s, ctl |-> "crash", wrote |-> NoQna]
    ELSE IF lm.kind \in {"no_array", "bad_json"}
    THEN [ss |-> s, ctl |-> "next", wrote |-> NoQna]
    ELSE IF Accepted(lm.value)
    THEN SaveAndStart(s, lm.value.items, lm.save_ok, t)
    ELSE [ss |-> s, ctl |-> "next", wrote |-> NoQna]

\* ------------------------------------------------------------ the timer
\* int(x) of a difference of d ticks: truncation toward zero
IntTrunc(d) ==
    IF d >= 0 THEN d \div TicksPerSecond ELSE -((-d) \div TicksPerSecond)

\* elapsed = int(time.time() - start_time); m, s = divmod(elapsed, 60)
Elapsed(from, to) == IntTrunc(to - from)
DivMod(e) == [m |-> e \div SecPerMin, s |-> e % SecPerMin]

\* ----------------------------------------------------- shuffled_options
\* random.shuffle(x): for i = n-1 .. 1: j = randbelow(i+1); swap x[i], x[j]
\* rnd[i] is the value randbelow returns at (1-based) position i
Swap(x, i, j) == [x EXCEPT ![i] = x[j], ![j] = x[i]]

RECURSIVE FisherYates(_, _, _)
FisherYates(x, i, rnd) ==
    IF i < 2 THEN x ELSE FisherYates(Swap(x, i, rnd[i] + 1), i - 1, rnd)

shuffle(x, rnd) == FisherYates(x, Len(x), rnd)

\* the longest options list among the modelled outputs
OptLen == Len(McaList[1].options)

\* the possible outcomes of the random draws for one list
Rnd == {r \in [2..OptLen -> 0..(OptLen - 1)] : \A i \in 2..OptLen : r[i] < i}

\* the draws of one initialisation: the first question draws for itself,
\* the other questions share one draw
Draws == [first : Rnd, rest : Rnd]
DrawOf(draws, i) == IF i = 1 THEN draws.first ELSE draws.rest

\* the shuffle without the test  "shuffled_options" not in st.session_state
InitShuffledOptions_EveryRender(s, draws) ==
    [s EXCEPT !.keys = @ \cup {"shuffled_options"},
              !.shuffled_options =
                  [i \in 1..Len(s.qna) |->
                     IF s.qna[i].has_options
                     THEN [some |-> TRUE,
                           opts |-> shuffle(s.qna[i].options, DrawOf(draws, i))]
                     ELSE [some |-> FALSE, opts |-> <<>>]]]

\* if "shuffled_options" not in st.session_state: ...
InitShuffledOptions(s, draws) ==
    IF "shuffled_options" \in s.keys THEN s
    ELSE [s EXCEPT !.keys = @ \cup {"shuffled_options"},
                   !.shuffled_options =
                       [i \in 1..Len(s.qna) |->
                          IF s.qna[i].has_options
                          THEN [some |-> TRUE,
                                opts |-> shuffle(s.qna[i].options, DrawOf(draws, i))]
                          ELSE [some |-> FALSE, opts |-> <<>>]]]

\* --------------------------------------------------------- the quiz form
\* the guard without "not submitted"
QuizLive_NoSubmittedTest(s) == s.qna # NoQna

\* if st.session_state.qna and not st.session_state.submitted:
QuizLive(s) == s.qna # NoQna /\ ~s.submitted

\* the text of the radio choice of question i, "" when index=None
McqAnswer(s, i) ==
    LET options == s.shuffled_options[i].opts
        labeled_options == [j \in 1..Len(options) |-> Label(j, options[j])]
    IN IF s.q_mcq[i] = 0 THEN Empty
       ELSE SplitAfterDotSpace(labeled_options[s.q_mcq[i]])

\* user_answers.append((qa['question'], qa['answer'], ...)) for every question
CollectAnswers(s) ==
    [i \in 1..Len(s.qna) |->
       IF s.question_format = "Fill in Blank"
       THEN <<s.qna[i].question, s.qna[i].answer, strip(s.q[i])>>
       ELSE <<s.qna[i].question, s.qna[i].answer, McqAnswer(s, i)>>]

\* enumerate(options) raises TypeError when shuffled_options[i] is None
RenderRaises(s) ==
    /\ s.question_format = "Multiple Choice"
    /\ \E i \in 1..Len(s.qna) : ~s.shuffled_options[i].some

\* if st.button("Submit Answers"): ...
SubmitAnswers(s, user_answers, t) ==
    [s EXCEPT !.submitted = TRUE, !.end_time = t, !.user_answers = user_answers]

\* ------------------------------------------------------------- Results
\* correct += 1 for every (q, correct_ans, user_ans) with user_ans == correct_ans
Correct(user_answers) ==
    Cardinality({i \in 1..Len(user_answers) : user_answers[i][3] = user_answers[i][2]})

\* total = len(st.session_state.user_answers) or 20
Total(user_answers) == IF Len(user_answers) = 0 THEN QLen ELSE Len(user_answers)

\* the thresholds compared with > in place of >=
Tier_Strict(correct) ==
    IF correct > HeroMin THEN "Hero"
    ELSE IF correct > GoodMin THEN "Good"
    ELSE "Keep practicing"

\* if correct >= 16: ... elif correct >= 10: ... else: ...
Tier(correct) ==
    IF correct >= HeroMin THEN "Hero"
    ELSE IF correct >= GoodMin THEN "Good"
    ELSE "Keep practicing"

\* if st.session_state.submitted and st.session_state.end_time:
ResultsShown(s) == s.submitted /\ s.end_time # None

\* a reset that deletes the five initialised keys only
TryAnotherSet_KeepOrder(s) ==
    [EmptySession EXCEPT !.keys = s.keys \ FiveKeys,
                         !.shuffled_options = s.shuffled_options]

\* for key in list(st.session_state.keys()): del st.session_state[key]
TryAnotherSet(s) == EmptySession

\* ------------------------------------------------------------ one run
\* widgets that a finished run did not render lose their state
Cleanup(s, rendered) ==
    [s EXCEPT !.q = IF rendered = "Fill in Blank" THEN @ ELSE NoDrafts,
              !.q_mcq = IF rendered = "Multiple Choice" THEN @ ELSE NoChoice]

Page(s, scr, rr, sh) ==
    [ss |-> s, screen |-> scr, rerun |-> rr, shown |-> sh]

ShowTimer(e) ==
    [NoShown EXCEPT !.timer = TRUE, !.elapsed = e, !.m = DivMod(e).m, !.s = DivMod(e).s]

ShowResults(e, user_answers) ==
    [NoShown EXCEPT !.final = TRUE, !.elapsed = e, !.m = DivMod(e).m, !.s = DivMod(e).s,
                    !.correct = Correct(user_answers),
                    !.total = Total(user_answers),
                    !.tier = Tier(Correct(user_answers))]

QuizScreen(format) == IF format = "Fill in Blank" THEN "quiz_fib" ELSE "quiz_mcq"

\* "if st.session_state.qna and not st.session_state.submitted:" up to the
\* timer auto-refresh; t1 is read for the timer, t2 for end_time
DisplayQuestions(s, click, t1, t2, draws) ==
    LET tm == ShowTimer(Elapsed(s.start_time, t1))
        s2 == InitShuffledOptions(s, draws)
    IN IF RenderRaises(s2) THEN Page(s2, "render_error", "none", tm)
       ELSE IF click = "submit"
       THEN Page(Cleanup(SubmitAnswers(s2, CollectAnswers(s2), t2), s2.question_format),
                 "pending", "now", tm)
       ELSE Page(Cleanup(s2, s2.question_format),
                 QuizScreen(s2.question_format), "timer", tm)

\* "if st.session_state.submitted and st.session_state.end_time:" to the end
Results(s, click) ==
    LET sh == ShowResults(Elapsed(s.start_time, s.end_time), s.user_answers)
    IN IF click = "reset" THEN Page(TryAnotherSet(s), "pending", "now", sh)
       ELSE Page(Cleanup(s, "none"), "results", "none", sh)

\* the script, top to bottom
Run(s0, click, lm, t1, t2, draws) ==
    LET s1 == SessionStateInit(s0)
        g  == IF click = "generate" THEN GenerateQuestions(s1, lm, t1)
              ELSE [ss |-> s1, ctl |-> "next", wrote |-> NoQna]
    IN IF g.ctl = "crash" THEN Page(g.ss, "error", "none", NoShown)
       ELSE IF g.ctl = "rerun"
       THEN Page(Cleanup(g.ss, "none"), "pending", "now", NoShown)
       ELSE IF QuizLive(g.ss) THEN DisplayQuestions(g.ss, click, t1, t2, draws)
       ELSE IF ResultsShown(g.ss) THEN Results(g.ss, click)
       ELSE Page(Cleanup(g.ss, "none"), "blank", "none", NoShown)

\* the list a run writes to a new file under MentalMath/, <<>> if it writes none
Written(s0, click, lm) ==
    IF click = "generate" THEN GenerateQuestions(SessionStateInit(s0), lm, 1).wrote
    ELSE NoQna

Commit(p) ==
    /\ screen' = p.screen
    /\ rerun' = p.rerun
    /\ session_state' = p.ss
    /\ shown' = p.shown
    /\ UNCHANGED response

\* ------------------------------------------------------------ the events
EditIdx == 1..MaxEditIdx
Texts == {Empty, S15sp, S15d0}
QuizScreens == {"quiz_fib", "quiz_mcq"}

\* the clock readings a run can make: time.time() is read only by a
\* successful Generate and by the quiz form
ReadsOf(s, click, lm) ==
    IF \/ click = "generate" /\ lm.kind = "parsed" /\ Accepted(lm.value) /\ lm.save_ok
       \/ ~(click = "generate" /\ lm.kind = "raise") /\ QuizLive(SessionStateInit(s))
    THEN Times ELSE {1}

\* the random draws a run can make: random.shuffle is called only when the
\* key shuffled_options is missing
DrawsOf(s) ==
    IF "shuffled_options" \in s.keys THEN {CHOOSE d \in Draws : TRUE} ELSE Draws

\* one run of the script on session state s, with the clock readings t1s, t2s
StepAt(s, click, lm, t1s, t2s) ==
    \E t1 \in t1s, t2 \in t2s, d \in DrawsOf(s) :
      \E p \in {Run(s, click, lm, t1, t2, d)} :
        /\ Commit(p)
        /\ \E w \in {Written(s, click, lm)} :
             saved_file' = IF w # NoQna THEN w ELSE saved_file

\* one run of the script on session state s
Step(s, click, lm, t2s) == StepAt(s, click, lm, ReadsOf(s, click, lm), t2s)

Init ==
    /\ session_state = EmptySession
    /\ screen = "pending"
    /\ rerun = "now"
    /\ shown = NoShown
    /\ saved_file = <<>>
    /\ response = NoResponse

\* the first run of a session, a run started by st.rerun(), or the timer refresh
Rerun ==
    /\ rerun # "none"
    /\ Step(session_state, "none", NoLm, {1})

\* click on "Generate My Questions"
ClickGenerate ==
    /\ rerun # "now"
    /\ \E lm \in LmOutcomes : Step(session_state, "generate", lm, {1})

\* click on "Submit Answers"
ClickSubmit ==
    /\ rerun # "now"
    /\ screen \in QuizScreens
    /\ Step(session_state, "submit", NoLm, Times)

\* click on "Try Another Set"
ClickTryAnother ==
    /\ rerun # "now"
    /\ screen = "results"
    /\ Step(session_state, "reset", NoLm, {1})

\* the user changes the "Question Format" radio
ChangeFormat ==
    /\ rerun # "now"
    /\ \E f \in Formats \ {session_state.question_format} :
          Step([session_state EXCEPT !.question_format = f], "none", NoLm, {1})

\* the user types into the text input of question i
TypeAnswer ==
    /\ rerun # "now"
    /\ screen = "quiz_fib"
    /\ \E i \in EditIdx :
         \E txt \in Texts \ {session_state.q[i]} :
          Step([session_state EXCEPT !.q[i] = txt], "none", NoLm, {1})

\* the user picks an option of question i
SelectOption ==
    /\ rerun # "now"
    /\ screen = "quiz_mcq"
    /\ \E i \in EditIdx :
         \E j \in (1..Len(session_state.shuffled_options[i].opts)) \ {session_state.q_mcq[i]} :
          Step([session_state EXCEPT !.q_mcq[i] = j], "none", NoLm, {1})

Next ==
    \/ Rerun
    \/ ClickGenerate
    \/ ClickSubmit
    \/ ClickTryAnother
    \/ ChangeFormat
    \/ TypeAnswer
    \/ SelectOption

Spec == Init /\ [][Next]_vars

\* ------------------------------------------- the results page of any score
\* the answers of a user who typed the correct answer of k questions, those
\* at the positions r+1 .. r+k (cyclically), and "15.0" for the others
TypedAnswers(k, r) ==
    [i \in 1..QLen |->
       IF (i - 1 + QLen - r) % QLen < k THEN FibList(QLen)[i].answer ELSE S15d0]

\* the session state a Submit run leaves for these answers
SubmittedSession(k, r) ==
    [EmptySession EXCEPT
       !.keys = FiveKeys \cup {"shuffled_options"},
       !.qna = FibList(QLen),
       !.start_time = 1,
       !.shuffled_options = [i \in 1..QLen |-> [some |-> FALSE, opts |-> <<>>]],
       !.q = TypedAnswers(k, r),
       !.submitted = TRUE,
       !.end_time = 1,
       !.user_answers =
           [i \in 1..QLen |-> <<FibList(QLen)[i].question, FibList(QLen)[i].answer,
                                strip(TypedAnswers(k, r)[i])>>]]

\* the states right after the Submit run (st.rerun() at line 243 is pending)
InitSubmitted ==
    /\ \E k \in 0..QLen, r \in 0..(QLen - 1) : session_state = SubmittedSession(k, r)
    /\ screen = "pending"
    /\ rerun = "now"
    /\ shown = ShowTimer(0)
    /\ saved_file = FibList(QLen)
    /\ response = NoResponse

NextSubmitted ==
    \/ Rerun
    \/ ClickTryAnother

SpecSubmitted == InitSubmitted /\ [][NextSubmitted]_vars

\* ------------------------------------ Generate on a given response.text
InitResponse ==
    /\ session_state = EmptySession
    /\ screen = "pending"
    /\ rerun = "now"
    /\ shown = NoShown
    /\ saved_file = <<>>
    /\ response \in Responses

\* click on "Generate My Questions" at time 1; the model returns response.text
ClickGenerateText ==
    /\ rerun # "now"
    /\ \E lm \in {Extraction(response.text)} :
         StepAt(session_state, "generate", lm, {1}, {1})

NextResponse ==
    \/ Rerun
    \/ ClickGenerateText

SpecResponse == InitResponse /\ [][NextResponse]_vars

\* =================================================================== claims
\* a click on "Generate My Questions" whose model call and parse end as lm
GenerateStep(lm) == rerun # "now" /\ Step(session_state, "generate", lm, {1})

\* the QuizSession fields of a session state
SessionFields(s) ==
    <<s.qna, s.start_time, s.end_time, s.submitted, s.user_answers,
      "shuffled_options" \in s.keys, s.shuffled_options>>

Count(seq, x) == Cardinality({j \in 1..Len(seq) : seq[j] = x})
Elems(seq) == {seq[j] : j \in 1..Len(seq)}
IsPermutation(a, b) ==
    /\ Len(a) = Len(b)
    /\ \A x \in Elems(a) \cup Elems(b) : Count(a, x) = Count(b, x)

AnswerInOptions(qa) == \E j \in 1..Len(qa.options) : qa.options[j] = qa.answer
IsMcBatch(items) == items # <<>> /\ \A i \in 1..Len(items) : items[i].has_options
Max0(x) == IF x < 0 THEN 0 ELSE x

\* ---- C1
\* C1: when the format selector is "Multiple Choice" and the parsed array has
\* 20 records of which one has an answer that is none of its options, the
\* Generate run fails and does not change the session's batch.
C1_InvalidRecordRejected ==
    [][\A lm \in LmOutcomes :
         ( /\ session_state.question_format = "Multiple Choice"
           /\ lm.kind = "parsed" /\ lm.value.is_list /\ Len(lm.value.items) = QLen
           /\ \E i \in 1..QLen : lm.value.items[i].has_options
                                  /\ ~AnswerInOptions(lm.value.items[i])
           /\ GenerateStep(lm) )
         => session_state'.qna = session_state.qna]_vars

\* ---- C2
\* C2: whenever the multiple-choice form of a multiple-choice batch is on the
\* page, the stored display order of every question is a permutation of the
\* options of that record of the current batch.
C2_DisplayOrderOfCurrentBatch ==
    (screen = "quiz_mcq" /\ IsMcBatch(session_state.qna))
    => \A i \in 1..Len(session_state.qna) :
         /\ session_state.shuffled_options[i].some
         /\ IsPermutation(session_state.shuffled_options[i].opts,
                          session_state.qna[i].options)

\* ---- C3
\* the outcomes with which a generation attempt fails
FailingOutcomes ==
    {lm \in LmOutcomes : \/ lm.kind # "parsed"
                         \/ ~lm.value.is_list
                         \/ Len(lm.value.items) # QLen
                         \/ ~lm.save_ok}

\* C3: in every state in which the button can be clicked, a Generate run
\* whose model call raises, that finds no array, whose
\* JSON does not parse, whose value is no list or has not 20 elements, or
\* whose file write raises, leaves qna, start_time, end_time, submitted,
\* user_answers and shuffled_options as they were.
C3_FailedGenerateKeepsSession ==
    rerun # "now"
    => \A lm \in FailingOutcomes :
         \A t \in ReadsOf(session_state, "generate", lm), d \in DrawsOf(session_state) :
           SessionFields(Run(session_state, "generate", lm, t, t, d).ss)
             = SessionFields(session_state)

\* a failed attempt (the uncaught exception of the model call is on the page)
\* made while a fill-in-blank quiz with a typed draft was live
C3_Witness ==
    /\ screen = "error"
    /\ session_state.question_format = "Fill in Blank"
    /\ QuizLive(session_state)
    /\ session_state.q[1] # Empty

\* ---- C4
\* C4: in every reachable state qna is unset or has exactly 20 records.
C4_BatchHasTwentyRecords ==
    session_state.qna = NoQna \/ Len(session_state.qna) = QLen

\* a batch of 20 records is live and its form is on the page
C4_Witness ==
    /\ screen \in QuizScreens
    /\ Len(session_state.qna) = QLen

\* ---- C5
\* the draft of question i as the user left it on the form
Draft(s, i) ==
    IF s.question_format = "Fill in Blank" THEN s.q[i]
    ELSE IF s.q_mcq[i] = 0 THEN Empty
    ELSE s.shuffled_options[i].opts[s.q_mcq[i]]

\* C5: a submit on a live, unsubmitted batch sets submitted, sets end_time
\* and sets user_answers to one entry per record, in batch order:
\* (question, correct answer, the draft with surrounding whitespace trimmed).
C5_SubmitCollectsTrimmedDrafts ==
    [][(~session_state.submitted /\ session_state'.submitted)
       => /\ session_state'.end_time \in Times
          /\ session_state'.user_answers =
               [i \in 1..Len(session_state.qna) |->
                  <<session_state.qna[i].question, session_state.qna[i].answer,
                    strip(Draft(session_state, i))>>]]_vars

\* ---- C6
\* C6: submitted becomes true only from a state with a live, unsubmitted
\* batch, and while submitted stays true user_answers and end_time do not
\* change.
C6_SubmitOnlyWhenLive ==
    [][/\ (~session_state.submitted /\ session_state'.submitted)
           => session_state.qna # NoQna
       /\ (session_state.submitted /\ session_state'.submitted)
           => /\ session_state'.user_answers = session_state.user_answers
              /\ session_state'.end_time = session_state.end_time]_vars

\* the results of a submitted batch are on the page
C6_Witness ==
    /\ screen = "results"
    /\ session_state.submitted
    /\ Len(session_state.user_answers) = QLen

\* ---- C7
\* C7: the score on the results page: correct is the number of collected
\* entries whose trimmed user answer equals the correct answer, total is the
\* number of collected entries.
C7_ScoreIsTrimmedExactMatch ==
    shown.final
    => /\ shown.correct =
            Cardinality({i \in 1..Len(session_state.user_answers) :
                           strip(session_state.user_answers[i][3])
                             = session_state.user_answers[i][2]})
       /\ shown.total = Len(session_state.user_answers)

\* ---- C8
\* C8: the elapsed time on the page, live or final, is never negative; the
\* final one is max(0, end_time - start_time).
C8_ElapsedNeverNegative ==
    (shown.timer \/ shown.final)
    => /\ shown.elapsed >= 0
       /\ shown.m >= 0
       /\ shown.final =>
            shown.elapsed = Max0(Elapsed(session_state.start_time, session_state.end_time))

\* ---- C9
\* C9: between the start and the submit of one batch the elapsed value of a
\* render is not below that of the render before it, and after the submit
\* every render shows end_time - start_time.
C9_ElapsedMonotoneThenFrozen ==
    [][/\ ( /\ shown.timer /\ shown'.timer
            /\ QuizLive(session_state) /\ QuizLive(session_state')
            /\ session_state'.qna = session_state.qna
            /\ session_state'.start_time = session_state.start_time )
          => shown'.elapsed >= shown.elapsed
       /\ ( shown.final /\ shown'.final
            /\ session_state.submitted /\ session_state'.submitted )
          => shown'.elapsed = shown.elapsed]_vars

\* ---- C10
\* C10: in every reachable state end_time is set if and only if submitted.
C10_EndTimeIffSubmitted ==
    (session_state.end_time # None) <=> session_state.submitted

\* ---- C11
\* user_answers, submitted, start_time, end_time
AnswerFields(s) == <<s.user_answers, s.submitted, s.start_time, s.end_time>>

\* the session state after the user edited one draft of the form (or none)
DraftEdits(s) ==
    {s} \cup {[s EXCEPT !.q[i] = txt] : i \in EditIdx, txt \in Texts}
        \cup {[s EXCEPT !.q_mcq[i] = j] : i \in EditIdx, j \in 0..OptLen}

\* C11: in every reachable state user_answers is empty while submitted is
\* false and has one entry per record of the batch while submitted is true;
\* a run that renders the form of a live batch, after any edit of a draft,
\* changes none of user_answers, submitted, start_time, end_time.
C11_AnswersOnlyAfterSubmit ==
    /\ ~session_state.submitted => session_state.user_answers = <<>>
    /\ session_state.submitted
         => Len(session_state.user_answers) = Len(session_state.qna)
    /\ QuizLive(session_state)
         => \A e \in DraftEdits(session_state) :
              \A t \in Times, d \in DrawsOf(e) :
                AnswerFields(Run(e, "none", NoLm, t, t, d).ss)
                  = AnswerFields(session_state)

\* the form of a live batch was rendered again after a draft was typed
C11_Witness ==
    /\ screen = "quiz_fib"
    /\ session_state.q[1] # Empty
    /\ ~session_state.submitted
    /\ session_state.user_answers = <<>>

\* ---- C12
\* C12: while one multiple-choice batch stays live, every run that renders
\* its form leaves a display order stored, and once a display order is stored
\* no run changes it.
C12_DisplayOrderStable ==
    [][( /\ IsMcBatch(session_state.qna)
         /\ QuizLive(session_state) /\ QuizLive(session_state')
         /\ session_state'.qna = session_state.qna
         /\ session_state'.start_time = session_state.start_time )
       => /\ screen' \in QuizScreens => "shuffled_options" \in session_state'.keys
          /\ "shuffled_options" \in session_state.keys
               => /\ "shuffled_options" \in session_state'.keys
                  /\ session_state'.shuffled_options
                       = session_state.shuffled_options]_vars

\* the multiple-choice form of a multiple-choice batch was rendered again
\* after an option was picked and after the clock advanced
C12_Witness ==
    /\ screen = "quiz_mcq"
    /\ IsMcBatch(session_state.qna)
    /\ session_state.q_mcq[1] # 0
    /\ shown.elapsed >= 1

\* ---- C13
\* the outcomes with which a generation attempt starts a session
StartingOutcomes == LmOutcomes \ FailingOutcomes

\* C13: from every results page, the run of "Try Another Set" and the rerun
\* it triggers leave submitted false, user_answers empty, no display order,
\* no batch and no timestamp, and every successful Generate run from there
\* ends in the session state in which the same Generate run ends on a new
\* session.
C13_ResetEqualsFreshSession ==
    (screen = "results" /\ rerun = "none")
    => \A d \in {CHOOSE d \in Draws : TRUE} :
         LET r  == Run(Run(session_state, "reset", NoLm, 1, 1, d).ss,
                       "none", NoLm, 1, 1, d).ss
             f  == Run(EmptySession, "none", NoLm, 1, 1, d).ss
         IN /\ ~r.submitted
            /\ r.user_answers = <<>>
            /\ "shuffled_options" \notin r.keys
            /\ r.qna = NoQna
            /\ r.start_time = None /\ r.end_time = None
            /\ \A lm \in StartingOutcomes, t \in Times :
                 Run(r, "generate", lm, t, t, d).ss
                   = Run(f, "generate", lm, t, t, d).ss

\* "Try Another Set" was clicked on a results page: the run showed the
\* results and left no key in the session state
C13_Witness ==
    /\ shown.final
    /\ screen = "pending"
    /\ session_state = EmptySession

\* ---- C14
\* C14: whenever the results page shows a submit that collected the empty
\* string for every question, it shows correct = 0 and total = 20.
C14_EmptySubmitScoresZero ==
    ( /\ shown.final /\ session_state.submitted
      /\ \A i \in 1..Len(session_state.user_answers) :
           session_state.user_answers[i][3] = Empty )
    => /\ shown.correct = 0
       /\ shown.total = 20

\* ---- C18
\* C18: after every run that reaches the form of a live, unsubmitted batch
\* the form is on the page (the run did not end in an exception), and it
\* shows radio groups exactly when the batch is a multiple-choice batch.
C18_RenderTotalAndByBatchFormat ==
    (QuizLive(session_state) /\ screen \in QuizScreens \cup {"render_error"})
    => /\ screen # "render_error"
       /\ screen = "quiz_mcq" <=> IsMcBatch(session_state.qna)

\* ---- C19
\* C19: in every reachable state the batch of the session is the content of
\* the newest file written, and a Generate run whose file write raises leaves
\* qna and start_time as they were.
C19_LiveBatchWasSaved ==
    /\ session_state.qna # NoQna => saved_file = session_state.qna
    /\ rerun # "now"
         => \A lm \in {o \in LmOutcomes : ~o.save_ok} :
              \A t \in ReadsOf(session_state, "generate", lm),
                 d \in DrawsOf(session_state) :
                LET r == Run(session_state, "generate", lm, t, t, d).ss
                IN r.qna = session_state.qna
                   /\ r.start_time = session_state.start_time

\* the form of a batch is on the page and the newest file holds that batch
C19_Witness ==
    /\ screen \in QuizScreens
    /\ QuizLive(session_state)
    /\ saved_file = session_state.qna

\* ---- C20
\* C20: after every run that got past the Generate handler, the timer rerun
\* (sleep(1); st.rerun()) is pending if and only if a batch is live and
\* submitted is false.
C20_TimerIffLive ==
    (rerun # "now" /\ screen # "error")
    => (rerun = "timer" <=> QuizLive(session_state))

\* ---- C15
\* C15: the results page of every score correct in 0..20 shows one tier:
\* "Hero" exactly when correct >= 16, "Good" exactly when 10 <= correct <= 15,
\* "Keep practicing" exactly when correct <= 9.
C15_OneTierPerScore ==
    shown.final
    => /\ shown.correct \in 0..20
       /\ shown.tier \in {"Hero", "Good", "Keep practicing"}
       /\ shown.tier = "Hero" <=> shown.correct >= 16
       /\ shown.tier = "Good" <=> (10 <= shown.correct /\ shown.correct <= 15)
       /\ shown.tier = "Keep practicing" <=> shown.correct <= 9

\* the results page of a submit with exactly 16 correct answers
C15_Witness ==
    /\ screen = "results"
    /\ shown.final
    /\ shown.correct = 16
    /\ shown.tier = "Hero"

\* ---- C16
\* the batch of the session after a Generate run (at time 1) for which the
\* model returns text
QnaAfterGenerate(text) ==
    Run(session_state, "generate", Extraction(text), 1, 1, CHOOSE d \in Draws : TRUE).ss.qna

\* C16: when the model returns a well-formed list of 20 records, as it is or
\* with one comma (and white space) put before one of its closing ] or },
\* the Generate run leaves in the session the records that the list itself
\* parses to, the contents of their strings included.
C16_RepairKeepsParsedBatch ==
    (response.how \in {"bare", "comma"} /\ rerun # "now")
    => /\ Loads(response.array).ok
       /\ QnaAfterGenerate(response.text) = Loads(response.array).items

\* ---- C17
\* C17: when the model returns a well-formed fill-in-blank list of 20 records
\* in a fenced block labelled json, between any prose, the candidate is taken
\* from the fence and the Generate run leaves the session with the batch that
\* it leaves for the list alone.
C17_FencedEqualsBare ==
    (response.how = "fenced" /\ rerun # "now")
    => /\ LocateCandidate(strip(response.text)).via = "fence"
       /\ QnaAfterGenerate(response.text) = QnaAfterGenerate(response.array)

====
